---- MODULE Spec2Model ----
(***************************************************************************)
(* Model of the PDF revenue log analyzer (src/app.py, src/openai_helper.py).*)
(* Text is a string; positions are 1-based; a position "after" a match is   *)
(* the index of the next character to consume.  Revenue is kept in cents.   *)
(***************************************************************************)
EXTENDS Integers, Sequences, FiniteSets, TLC

(***************************************************************************)
(* Characters and character classes of Python's re module                  *)
(***************************************************************************)
Char(t, i) == IF i >= 1 /\ i <= Len(t) THEN SubSeq(t, i, i) ELSE ""

DigitChars == {"0", "1", "2", "3", "4", "5", "6", "7", "8", "9"}

LetterChars ==
    {"A", "B", "C", "D", "E", "F", "G", "H", "I", "J", "K", "L", "M", "N", "O",
     "P", "Q", "R", "S", "T", "U", "V", "W", "X", "Y", "Z",
     "a", "b", "c", "d", "e", "f", "g", "h", "i", "j", "k", "l", "m", "n", "o",
     "p", "q", "r", "s", "t", "u", "v", "w", "x", "y", "z"}

SpaceChars == {" ", "\n", "\t", "\r", "\f"}

\* \d
IsDigit(c) == c \in DigitChars

\* \s
IsSpace(c) == c \in SpaceChars

\* \w
IsWord(c) == c \in DigitChars \cup LetterChars \cup {"_"}

\* the literal s occurs in t at position i
LitAt(t, i, s) == i >= 1 /\ i + Len(s) - 1 <= Len(t) /\ SubSeq(t, i, i + Len(s) - 1) = s

\* position after the greedy run \d* starting at i
RECURSIVE DigitsEnd(_, _)
DigitsEnd(t, i) == IF IsDigit(Char(t, i)) THEN DigitsEnd(t, i + 1) ELSE i

\* position after the greedy run \s* starting at i
RECURSIVE SpaceEnd(_, _)
SpaceEnd(t, i) == IF IsSpace(Char(t, i)) THEN SpaceEnd(t, i + 1) ELSE i

\* \b at position i: exactly one of the characters around the gap is a word character
WordBoundary(t, i) == IsWord(Char(t, i - 1)) # IsWord(Char(t, i))

NoMatch == [ok |-> FALSE, end |-> 0]

\* the first successful result of a sequence of attempts tried in order
FirstOk(tries) == Head(SelectSeq(tries, LAMBDA r : r.ok) \o <<NoMatch>>)

\* re.findall over M, the match (or NoMatch) at every position of the text:
\* leftmost matches, scanning on after each match
RECURSIVE Scan(_, _)
Scan(M, i) ==
    IF i > Len(M) THEN <<>>
    ELSE IF M[i].ok THEN <<M[i]>> \o Scan(M, M[i].end)
    ELSE Scan(M, i + 1)

(***************************************************************************)
(* int() and float() on the captured groups                                *)
(***************************************************************************)
DigitVal(c) ==
    CASE c = "0" -> 0 [] c = "1" -> 1 [] c = "2" -> 2 [] c = "3" -> 3 [] c = "4" -> 4
      [] c = "5" -> 5 [] c = "6" -> 6 [] c = "7" -> 7 [] c = "8" -> 8 [] c = "9" -> 9

\* a non-empty string of decimal digits
IsDigits(s) == Len(s) > 0 /\ \A k \in 1..Len(s) : IsDigit(Char(s, k))

\* value of a string of decimal digits (leading zeros allowed, "09" is 9)
RECURSIVE DigitsValue(_)
DigitsValue(s) ==
    IF Len(s) = 0 THEN 0
    ELSE 10 * DigitsValue(SubSeq(s, 1, Len(s) - 1)) + DigitVal(Char(s, Len(s)))

\* int(s) for a captured group (\d+): the conversion cannot fail on digits
ParseInt(s) == DigitsValue(s)

\* float(s) for a captured group \d+\.\d{2} or \d+\.\d+, in cents.  The amounts of
\* the model carry one or two fractional digits; a longer fraction has no value
\* in cents and no arm here.
ParseFloat(s) ==
    LET d == DigitsEnd(s, 1)
        frac == SubSeq(s, d + 1, Len(s))
    IN  CASE Len(frac) = 2 -> 100 * DigitsValue(SubSeq(s, 1, d - 1)) + DigitsValue(frac)
          [] Len(frac) = 1 -> 100 * DigitsValue(SubSeq(s, 1, d - 1)) + 10 * DigitsValue(frac)

(***************************************************************************)
(* Pieces shared by the patterns of parse_revenue_data                     *)
(***************************************************************************)
\* \$(\d+\.\d{2}) at i.  \d+ is greedy and giving digits back never helps: "."
\* must follow the run.
Amount2At(t, i) ==
    LET d == DigitsEnd(t, i + 1)
    IN  IF /\ Char(t, i) = "$"
           /\ d > i + 1
           /\ Char(t, d) = "."
           /\ IsDigit(Char(t, d + 1))
           /\ IsDigit(Char(t, d + 2))
        THEN [ok |-> TRUE, end |-> d + 3, amount_str |-> SubSeq(t, i + 1, d + 2)]
        ELSE NoMatch

\* \$(\d+\.\d+) at i, as the last element of a pattern (greedy, never given back)
AmountNAt(t, i) ==
    LET d == DigitsEnd(t, i + 1)
        e == DigitsEnd(t, DigitsEnd(t, i + 1) + 1)
    IN  IF Char(t, i) = "$" /\ d > i + 1 /\ Char(t, d) = "." /\ e > d + 1
        THEN [ok |-> TRUE, end |-> e, amount_str |-> SubSeq(t, i + 1, e - 1)]
        ELSE NoMatch

\* .*?\$(\d+\.\d{2}) from i ("." matches every character of the normalised text)
FirstAmount2(t, i) == FirstOk([k \in 1..(Len(t) - i + 1) |-> Amount2At(t, i + k - 1)])

\* .*?\$(\d+\.\d+) from i
FirstAmountN(t, i) == FirstOk([k \in 1..(Len(t) - i + 1) |-> AmountNAt(t, i + k - 1)])

\* (?:HRS|HR5|HRS\'|HRS\"|\bH\b) at i: the positions after each alternative that
\* matches, in the order the alternatives are tried
MarkerEnds(t, i) ==
    SelectSeq(<< IF LitAt(t, i, "HRS") THEN i + 3 ELSE 0,
                 IF LitAt(t, i, "HR5") THEN i + 3 ELSE 0,
                 IF LitAt(t, i, "HRS'") THEN i + 4 ELSE 0,
                 IF LitAt(t, i, "HRS\"") THEN i + 4 ELSE 0,
                 IF LitAt(t, i, "H") /\ WordBoundary(t, i) /\ WordBoundary(t, i + 1)
                 THEN i + 1 ELSE 0 >>,
              LAMBDA e : e > 0)

\* (\d{1,2}) at i: the lengths tried, longest first
HourLens(t, i) ==
    IF ~IsDigit(Char(t, i)) THEN <<>>
    ELSE IF IsDigit(Char(t, i + 1)) THEN <<2, 1>> ELSE <<1>>

\* (\d{1,2})\s*(?:HRS|HR5|HRS\'|HRS\"|\bH\b) at i: every way to match it, in the
\* order backtracking tries them, as <<hour length, position after the marker>>.
\* \s* is greedy; giving a space back leaves a space where the marker must start.
RECURSIVE HourHeadsFor(_, _, _)
HourHeadsFor(t, i, lens) ==
    IF lens = <<>> THEN <<>>
    ELSE LET ms == MarkerEnds(t, SpaceEnd(t, i + Head(lens)))
         IN  [k \in 1..Len(ms) |-> <<Head(lens), ms[k]>>] \o HourHeadsFor(t, i, Tail(lens))

HourHeads(t, i) == HourHeadsFor(t, i, HourLens(t, i))

(***************************************************************************)
(* pattern (src/app.py:76) and re.findall(pattern, text)                   *)
(***************************************************************************)
\* the rest of pattern after the marker: \s*(\d+)\s*\$(\d+\.\d{2})
PrimaryTail(t, i, head) ==
    LET p2 == SpaceEnd(t, head[2])
        q  == DigitsEnd(t, SpaceEnd(t, head[2]))
        a  == Amount2At(t, SpaceEnd(t, DigitsEnd(t, SpaceEnd(t, head[2]))))
    IN  IF q > p2 /\ a.ok
        THEN [ok |-> TRUE, end |-> a.end,
              hour_str |-> SubSeq(t, i, i + head[1] - 1),
              qty_str |-> SubSeq(t, p2, q - 1),
              amount_str |-> a.amount_str]
        ELSE NoMatch

\* pattern matched at position i
PrimaryAt(t, i) ==
    LET hs == HourHeads(t, i)
    IN  FirstOk([k \in 1..Len(hs) |-> PrimaryTail(t, i, hs[k])])

\* re.findall(pattern, text)
FindAllPrimary(t) == Scan([i \in 1..Len(t) |-> PrimaryAt(t, i)], 1)

(***************************************************************************)
(* alt_pattern (src/app.py:80) and re.findall(alt_pattern, text)           *)
(***************************************************************************)
\* the groups of an alt_pattern match whose amount was matched as a
AltGroups(a, hour_str) ==
    IF a.ok
    THEN [ok |-> TRUE, end |-> a.end, hour_str |-> hour_str, amount_str |-> a.amount_str]
    ELSE NoMatch

\* the rest of alt_pattern after the marker: .*?\$(\d+\.\d{2})
AltTail(t, i, head) ==
    AltGroups(FirstAmount2(t, head[2]), SubSeq(t, i, i + head[1] - 1))

AltAt(t, i) ==
    LET hs == HourHeads(t, i)
    IN  FirstOk([k \in 1..Len(hs) |-> AltTail(t, i, hs[k])])

\* re.findall(alt_pattern, text)
FindAllAlt(t) == Scan([i \in 1..Len(t) |-> AltAt(t, i)], 1)

(***************************************************************************)
(* qty_pattern (src/app.py:132) and re.search(qty_pattern, text)           *)
(***************************************************************************)
\* the rest of qty_pattern after the marker: \s*(\d+)
QtyTail(t, m) ==
    LET p == SpaceEnd(t, m)
        q == DigitsEnd(t, SpaceEnd(t, m))
    IN  IF q > p THEN [ok |-> TRUE, end |-> q, qty_str |-> SubSeq(t, p, q - 1)]
        ELSE NoMatch

\* {hour_str}\s*(?:HRS|HR5|HRS\'|HRS\"|\bH\b)\s*(\d+) at i
QtyAt(t, i, hour_str) ==
    IF ~LitAt(t, i, hour_str) THEN NoMatch
    ELSE LET ms == MarkerEnds(t, SpaceEnd(t, i + Len(hour_str)))
         IN  FirstOk([k \in 1..Len(ms) |-> QtyTail(t, ms[k])])

\* re.search(qty_pattern, text)
QtySearch(t, hour_str) == FirstOk([k \in 1..Len(t) |-> QtyAt(t, k, hour_str)])

(***************************************************************************)
(* hour_patterns (src/app.py:153-164) and m_hrs_pattern (src/app.py:200)   *)
(***************************************************************************)
DigitChar(d) ==
    CASE d = 0 -> "0" [] d = 1 -> "1" [] d = 2 -> "2" [] d = 3 -> "3" [] d = 4 -> "4"
      [] d = 5 -> "5" [] d = 6 -> "6" [] d = 7 -> "7" [] d = 8 -> "8" [] d = 9 -> "9"

\* the f-string rendering {n} of a non-negative integer
RECURSIVE IntToStr(_)
IntToStr(n) == IF n < 10 THEN DigitChar(n) ELSE IntToStr(n \div 10) \o DigitChar(n % 10)

\* the positions after each literal of alts that occurs at i, in the order tried
LitEnds(t, i, alts) ==
    SelectSeq([k \in 1..Len(alts) |-> IF LitAt(t, i, alts[k]) THEN i + Len(alts[k]) ELSE 0],
              LAMBDA e : e > 0)

\* (?:{missing_hour}|l{missing_hour-10}|I{missing_hour-10})
HourOrConfused(h) == <<IntToStr(h), "l" \o IntToStr(h - 10), "I" \o IntToStr(h - 10)>>

\* (?:l{missing_hour-10}|I{missing_hour-10})
ConfusedOnly(h) == <<"l" \o IntToStr(h - 10), "I" \o IntToStr(h - 10)>>

\* (?:{missing_hour}|{missing_hour}\s|\s{missing_hour}\s) at i
HourSpacedEnds(t, i, h) ==
    SelectSeq(<< IF LitAt(t, i, IntToStr(h)) THEN i + Len(IntToStr(h)) ELSE 0,
                 IF LitAt(t, i, IntToStr(h)) /\ IsSpace(Char(t, i + Len(IntToStr(h))))
                 THEN i + Len(IntToStr(h)) + 1 ELSE 0,
                 IF IsSpace(Char(t, i)) /\ LitAt(t, i + 1, IntToStr(h))
                    /\ IsSpace(Char(t, i + 1 + Len(IntToStr(h))))
                 THEN i + Len(IntToStr(h)) + 2 ELSE 0 >>,
              LAMBDA e : e > 0)

\* position after the greedy run [\s\.]* starting at i
RECURSIVE SpaceDotEnd(_, _)
SpaceDotEnd(t, i) ==
    IF IsSpace(Char(t, i)) \/ Char(t, i) = "." THEN SpaceDotEnd(t, i + 1) ELSE i

\* the groups of a match with one group, whose amount was matched as a
OneGroup(a) ==
    IF a.ok
    THEN [ok |-> TRUE, end |-> a.end, groups |-> 1, qty_str |-> "",
          amount_str |-> a.amount_str]
    ELSE NoMatch

\* the groups of a match with two groups
TwoGroups(a, qty_str) ==
    IF a.ok
    THEN [ok |-> TRUE, end |-> a.end, groups |-> 2, qty_str |-> qty_str,
          amount_str |-> a.amount_str]
    ELSE NoMatch

\* .*?\$(\d+\.\d+) from i
AmtTail(t, i) == OneGroup(FirstAmountN(t, i))

\* (\d+).*?\$(\d+\.\d+) at j: the digit run is greedy and gives digits back, longest
\* first, until an amount follows
QtyAmtAt(t, j) ==
    LET e == DigitsEnd(t, j)
    IN  FirstOk([n \in 1..(e - j) |->
                    TwoGroups(FirstAmountN(t, e - n + 1), SubSeq(t, j, e - n))])

\* .*?(\d+).*?\$(\d+\.\d+) from i
QtyAmtTail(t, i) == FirstOk([k \in 1..(Len(t) - i + 1) |-> QtyAmtAt(t, i + k - 1)])

\* the alternatives of the hour token of hour_patterns[n] at i: positions after
RecoveryHeads(t, i, h, n) ==
    CASE n \in {1, 2, 3} -> LitEnds(t, i, HourOrConfused(h))
      [] n = 4 -> HourSpacedEnds(t, i, h)
      [] n = 5 -> LitEnds(t, i, ConfusedOnly(h))
      [] n = 6 -> LitEnds(t, i, <<"M">>)

\* the unit marker of hour_patterns[n] at p (patterns 3, 4 and 5 have none)
RecoveryUnits(t, p, n) ==
    CASE n = 1 -> LitEnds(t, SpaceEnd(t, p), <<"HRS", "HR", "H", "hrs", "hr">>)
      [] n = 2 -> LitEnds(t, SpaceDotEnd(t, p),
                          <<"HRS", "HR", "H", "hrs", "hr", "pm", "PM">>)
      [] n = 6 -> LitEnds(t, SpaceEnd(t, p), <<"HRS", "HR", "H">>)
      [] OTHER -> <<p>>

\* the rest of hour_patterns[n] after the unit marker
RecoveryTail(t, p, n) == IF n \in {1, 4, 5} THEN AmtTail(t, p) ELSE QtyAmtTail(t, p)

RecoveryAfterHead(t, p, n) ==
    LET us == RecoveryUnits(t, p, n)
    IN  FirstOk([k \in 1..Len(us) |-> RecoveryTail(t, us[k], n)])

\* hour_patterns[n] matched at position i, for missing_hour h
RecoveryAt(t, i, h, n) ==
    LET heads == RecoveryHeads(t, i, h, n)
    IN  FirstOk([k \in 1..Len(heads) |-> RecoveryAfterHead(t, heads[k], n)])

\* re.search(hour_patterns[n], text)
RecoverySearch(t, h, n) == FirstOk([k \in 1..Len(t) |-> RecoveryAt(t, k, h, n)])

\* M\s+HRS\s+(\d+)\s+\$(\d+\.\d+) at i
MHrsAt(t, i) ==
    LET p1 == SpaceEnd(t, i + 1)
        p2 == SpaceEnd(t, SpaceEnd(t, i + 1) + 3)
        q  == DigitsEnd(t, SpaceEnd(t, SpaceEnd(t, i + 1) + 3))
        p3 == SpaceEnd(t, DigitsEnd(t, SpaceEnd(t, SpaceEnd(t, i + 1) + 3)))
    IN  IF /\ Char(t, i) = "M" /\ p1 > i + 1
           /\ LitAt(t, p1, "HRS") /\ p2 > p1 + 3
           /\ q > p2 /\ p3 > q
        THEN TwoGroups(AmountNAt(t, p3), SubSeq(t, p2, q - 1))
        ELSE NoMatch

\* re.search(m_hrs_pattern, text)
MHrsSearch(t) == FirstOk([k \in 1..Len(t) |-> MHrsAt(t, k)])

(***************************************************************************)
(* re.sub(r'\s+', ' ', text) (src/app.py:68)                               *)
(***************************************************************************)
RECURSIVE NormalizeFrom(_, _)
NormalizeFrom(t, i) ==
    IF i > Len(t) THEN ""
    ELSE IF IsSpace(Char(t, i)) THEN " " \o NormalizeFrom(t, SpaceEnd(t, i))
    ELSE Char(t, i) \o NormalizeFrom(t, i + 1)

NormalizeWS(t) == NormalizeFrom(t, 1)

(***************************************************************************)
(* Records of the result table                                             *)
(***************************************************************************)
BEFORE == "Before 3:00 PM"
AFTER == "After 3:00 PM"

\* the hour from which an entry counts as "after 3 PM" (src/app.py:102)
THRESHOLD_HOUR == 15

\* a variant of CategoryOf that writes the comparison as "<=", putting the
\* threshold hour itself in "before"
CategoryOf_ThresholdBefore(hour) == IF hour <= THRESHOLD_HOUR THEN BEFORE ELSE AFTER

\* "Before 3:00 PM" if hour < 15 else "After 3:00 PM"
CategoryOf(hour) == IF hour < THRESHOLD_HOUR THEN BEFORE ELSE AFTER

\* f"{hour:02d}:00", for the non-negative hours that reach it
TimeStr(hour) == (IF hour < 10 THEN "0" ELSE "") \o IntToStr(hour) \o ":00"

\* Quantity is <<>> for None and <<q>> for the integer q
None == <<>>
Some(q) == <<q>>

MkRecord(hour, revenue, category, quantity) ==
    [Hour |-> hour, Time |-> TimeStr(hour), Revenue |-> revenue,
     Category |-> category, Quantity |-> quantity]

Hours(data) == {data[k].Hour : k \in 1..Len(data)}

\* sorted(data, key=lambda x: x["Hour"]): a stable sort
RECURSIVE InsertByHour(_, _)
InsertByHour(sorted, r) ==
    IF sorted = <<>> THEN <<r>>
    ELSE IF sorted[Len(sorted)].Hour <= r.Hour THEN Append(sorted, r)
    ELSE Append(InsertByHour(SubSeq(sorted, 1, Len(sorted) - 1), r), sorted[Len(sorted)])

RECURSIVE SortByHour(_)
SortByHour(data) ==
    IF data = <<>> THEN <<>>
    ELSE InsertByHour(SortByHour(SubSeq(data, 1, Len(data) - 1)), data[Len(data)])

(***************************************************************************)
(* parse_revenue_data (src/app.py:65-226)                                  *)
(***************************************************************************)
\* the loop over matches (src/app.py:87-112); int() and float() cannot raise on
\* the groups of pattern, so the except branch never runs
PrimaryPass(matches) ==
    [k \in 1..Len(matches) |->
        LET hour == ParseInt(matches[k].hour_str)
        IN  MkRecord(hour, ParseFloat(matches[k].amount_str), CategoryOf(hour),
                     Some(ParseInt(matches[k].qty_str)))]

\* one iteration of the loop over alt_matches (src/app.py:115-144)
AltStep(data, m, text) ==
    LET hour == ParseInt(m.hour_str)
        qty_match == QtySearch(text, m.hour_str)
    IN  IF hour \in Hours(data) THEN data
        ELSE Append(data, MkRecord(hour, ParseFloat(m.amount_str), CategoryOf(hour),
                                   IF qty_match.ok THEN Some(ParseInt(qty_match.qty_str))
                                   ELSE None))

RECURSIVE AltPass(_, _, _)
AltPass(data, alt_matches, text) ==
    IF alt_matches = <<>> THEN data
    ELSE AltPass(AltStep(data, Head(alt_matches), text), Tail(alt_matches), text)

\* the match of the first pattern of hour_patterns that re.search finds
\* (src/app.py:167-169, 193)
FirstPatternMatch(text, h) == FirstOk([n \in 1..6 |-> RecoverySearch(text, h, n)])

\* what the search for missing_hour h leaves: m is the match of hour_patterns,
\* mm the match of m_hrs_pattern, st is [data, diag]
Recovered(st, h, m, mm) ==
    IF m.ok
    THEN [data |-> Append(st.data,
                      MkRecord(h, ParseFloat(m.amount_str), CategoryOf(h),
                               IF m.groups = 1 THEN None ELSE Some(ParseInt(m.qty_str)))),
          diag |-> Append(st.diag, [kind |-> "recovered", hour |-> h])]
    ELSE IF h = 14 /\ mm.ok
    THEN [data |-> Append(st.data,
                      MkRecord(14, ParseFloat(mm.amount_str), BEFORE,
                               Some(ParseInt(mm.qty_str)))),
          diag |-> Append(st.diag, [kind |-> "recovered_m_hrs", hour |-> 14])]
    ELSE [data |-> st.data,
          diag |-> Append(st.diag, [kind |-> "could_not_be_found", hour |-> h])]

\* a variant of RecoverHour that searches for the hour without looking at
\* existing_hours
RecoverHour_Unconditional(st, existing_hours, text, h) ==
    Recovered(st, h, FirstPatternMatch(text, h), MHrsSearch(text))

\* the body of "for missing_hour in [14, 15]" for one hour (src/app.py:151-221);
\* existing_hours was read before the loop
RecoverHour(st, existing_hours, text, h) ==
    IF h \in existing_hours THEN st
    ELSE Recovered(st, h, FirstPatternMatch(text, h), MHrsSearch(text))

RecoveryPass(data, diag, text) ==
    LET existing_hours == Hours(data)
    IN  RecoverHour(RecoverHour([data |-> data, diag |-> diag], existing_hours, text, 14),
                    existing_hours, text, 15)

\* the table parse_revenue_data returns for a text already normalised
ParseNormalised(text) ==
    SortByHour(RecoveryPass(AltPass(PrimaryPass(FindAllPrimary(text)), FindAllAlt(text),
                                    text),
                            <<>>, text).data)

\* parse_revenue_data(raw): the table returned
ParseRevenueData(raw) == ParseNormalised(NormalizeWS(raw))

(***************************************************************************)
(* parse_revenue_data_with_openai, the loop over all_results               *)
(* (src/app.py:340-387).  A JSON value is [t, n, s]: t is "int" (n), "dec"  *)
(* (a float, n in cents), "str" (s), "null" or "missing" (key absent).     *)
(***************************************************************************)
JInt(n) == [t |-> "int", n |-> n, s |-> ""]
JDec(cents) == [t |-> "dec", n |-> cents, s |-> ""]
JStr(str) == [t |-> "str", n |-> 0, s |-> str]
JNull == [t |-> "null", n |-> 0, s |-> ""]
JMissing == [t |-> "missing", n |-> 0, s |-> ""]

Raised == [ok |-> FALSE, val |-> 0]
Value(v) == [ok |-> TRUE, val |-> v]

\* an optional sign followed by digits: the strings int() accepts
SignLen(str) == IF Char(str, 1) \in {"-", "+"} THEN 1 ELSE 0
Signed(str, v) == IF Char(str, 1) = "-" THEN 0 - v ELSE v

IntOfStr(str) ==
    LET body == SubSeq(str, SignLen(str) + 1, Len(str))
    IN  IF IsDigits(body) THEN Value(Signed(str, DigitsValue(body))) ELSE Raised

\* float() on a string: an optional sign, digits and an optional fraction of one
\* or two digits; any other text of the model (a thousands separator, letters)
\* raises ValueError
FloatOfStr(str) ==
    LET body == SubSeq(str, SignLen(str) + 1, Len(str))
        d == DigitsEnd(body, 1)
        frac == SubSeq(body, d + 1, Len(body))
    IN  IF d > 1 /\ d = Len(body) + 1 THEN Value(Signed(str, 100 * DigitsValue(body)))
        ELSE IF d > 1 /\ Char(body, d) = "." /\ IsDigits(frac) /\ Len(frac) <= 2
        THEN Value(Signed(str, ParseFloat(body)))
        ELSE Raised

\* int() of a float truncates toward zero
TruncCents(c) == IF c >= 0 THEN c \div 100 ELSE 0 - ((0 - c) \div 100)

\* int(item.get("Hour", 0))
ItemHour(item) ==
    CASE item.Hour.t = "missing" -> Value(0)
      [] item.Hour.t = "int" -> Value(item.Hour.n)
      [] item.Hour.t = "dec" -> Value(TruncCents(item.Hour.n))
      [] item.Hour.t = "str" -> IntOfStr(item.Hour.s)
      [] item.Hour.t = "null" -> Raised

\* str(item.get("Revenue", "0")), the "$" prefix removed, then float()
ItemRevenue(item) ==
    LET v == item.Revenue
        revenue_str == IF Char(v.s, 1) = "$" THEN SubSeq(v.s, 2, Len(v.s)) ELSE v.s
    IN  CASE v.t = "missing" -> Value(0)
          [] v.t = "int" -> Value(100 * v.n)
          [] v.t = "dec" -> Value(v.n)
          [] v.t = "str" -> FloatOfStr(revenue_str)
          [] v.t = "null" -> Raised

\* quantity.replace(',', '')
RECURSIVE RemoveCommas(_)
RemoveCommas(str) ==
    IF Len(str) = 0 THEN ""
    ELSE (IF Char(str, 1) = "," THEN "" ELSE Char(str, 1))
         \o RemoveCommas(SubSeq(str, 2, Len(str)))

\* item.get("Quantity"), converted with int() unless it is None
ItemQuantity(item) ==
    LET v == item.Quantity
    IN  CASE v.t \in {"missing", "null"} -> Value(None)
          [] v.t = "int" -> Value(Some(v.n))
          [] v.t = "dec" -> Value(Some(TruncCents(v.n)))
          [] v.t = "str" -> LET r == IntOfStr(RemoveCommas(v.s))
                            IN  IF r.ok THEN Value(Some(r.val)) ELSE Raised

\* one iteration of "for item in all_results"; st is [data, diag]
ItemStep(st, item) ==
    LET hour == ItemHour(item)
        revenue == ItemRevenue(item)
        quantity == ItemQuantity(item)
        warned == [data |-> st.data,
                   diag |-> Append(st.diag, [kind |-> "openai_result_error", hour |-> 0])]
    IN  IF ~hour.ok THEN warned
        ELSE IF hour.val <= 0 \/ hour.val > 23 THEN st
        ELSE IF ~revenue.ok \/ ~quantity.ok THEN warned
        ELSE [data |-> Append(st.data,
                          MkRecord(hour.val, revenue.val, CategoryOf(hour.val), quantity.val)),
              diag |-> st.diag]

RECURSIVE ItemLoop(_, _)
ItemLoop(st, items) ==
    IF items = <<>> THEN st ELSE ItemLoop(ItemStep(st, Head(items)), Tail(items))

\* the check for hours 14 and 15 after the loop (src/app.py:378-382)
RECURSIVE NotFoundByOpenAI(_, _, _)
NotFoundByOpenAI(diag, existing_hours, hs) ==
    IF hs = <<>> THEN diag
    ELSE NotFoundByOpenAI(
             IF Head(hs) \in existing_hours THEN diag
             ELSE Append(diag, [kind |-> "not_found_by_openai", hour |-> Head(hs)]),
             existing_hours, Tail(hs))

\* the table parse_revenue_data_with_openai returns once all_results holds items
OpenAiTable(items) == SortByHour(ItemLoop([data |-> <<>>, diag |-> <<>>], items).data)

(***************************************************************************)
(* analyze_revenue_data (src/app.py:229-244) and the totals of             *)
(* display_revenue_data (src/app.py:257-259)                               *)
(***************************************************************************)
RECURSIVE SumRevenue(_)
SumRevenue(rows) ==
    IF rows = <<>> THEN 0 ELSE Head(rows).Revenue + SumRevenue(Tail(rows))

\* sum of the Quantity column: missing values are skipped
RECURSIVE SumQuantity(_)
SumQuantity(rows) ==
    IF rows = <<>> THEN 0
    ELSE (IF Head(rows).Quantity = None THEN 0 ELSE Head(rows).Quantity[1])
         + SumQuantity(Tail(rows))

\* a variant of GroupRows that forgets the grouping key: every group is the
\* whole table
GroupRows_Ungrouped(df, cat) == df

\* the rows of one group of df.groupby('Category')
GroupRows(df, cat) == SelectSeq(df, LAMBDA r : r.Category = cat)

\* the mean of the Revenue column of a non-empty group, as the fraction num/den
MeanRevenue(rows) == [num |-> SumRevenue(rows), den |-> Len(rows)]

Bucket(df, cat) ==
    LET rows == GroupRows(df, cat)
    IN  [Category |-> cat,
         Total_Revenue |-> SumRevenue(rows),
         Entry_Count |-> Len(rows),
         Average_Revenue |-> MeanRevenue(rows),
         Total_Quantity |-> SumQuantity(rows)]

\* a variant of AnalyzeRevenueData that reports every category, also one without
\* records, and does not return early on an empty table
AnalyzeRevenueData_EveryCategory(df) ==
    [k \in 1..2 |-> Bucket(df, <<AFTER, BEFORE>>[k])]

\* groupby yields one row per category present, in sorted key order
AnalyzeRevenueData(df) ==
    IF df = <<>> THEN <<>>
    ELSE LET present == SelectSeq(<<AFTER, BEFORE>>, LAMBDA c : GroupRows(df, c) # <<>>)
         IN  [k \in 1..Len(present) |-> Bucket(df, present[k])]

\* total_revenue and total_quantity shown above the tables
DisplayTotals(df) ==
    [total_revenue |-> SumRevenue(df), total_quantity |-> SumQuantity(df)]

\* the Quantity column of the entries table: "Unknown" for a missing quantity
DisplayQuantity(r) ==
    IF r.Quantity = None THEN "Unknown"
    ELSE IF r.Quantity[1] < 0 THEN "-" \o IntToStr(0 - r.Quantity[1])
    ELSE IntToStr(r.Quantity[1])

(***************************************************************************)
(* The run of main() (src/app.py:393-429) on one uploaded file             *)
(***************************************************************************)
\* the most pages the rasterizer returns
MaxPages == 2

OPENAI == "OpenAI (More Accurate)"
OCR == "Traditional OCR (Less Accurate)"

\* the lines of the scanned logs the model draws from, each with what the line
\* says: its hour, its quantity (None when the line has none) and its amount
LogLine(line, hour, quantity, revenue) ==
    [line |-> line, hour |-> hour, quantity |-> quantity, revenue |-> revenue]

LogLines ==
    { LogLine("9 HRS 5 $10.00", 9, Some(5), 1000),
      LogLine("9 HRS $12.00", 9, None, 1200),
      LogLine("14 HRS 7 $30.00", 14, Some(7), 3000),
      LogLine("15 HRS $40.00", 15, None, 4000),
      LogLine("M HRS 21 $134.19", 14, Some(21), 13419),     \* "14" read as "M"
      LogLine("l4 HRS 6 $60.00", 14, Some(6), 6000),        \* "1" read as "l"
      LogLine("25 HRS 2 $20.00", 25, Some(2), 2000),        \* not an hour of the day
      LogLine("16 HRS 14 $50.00", 16, Some(14), 5000),      \* a quantity that reads like an hour
      LogLine("19 HRS 4 $15.00", 19, Some(4), 1500),        \* an amount that reads like an hour
      LogLine("17 HRS 3 $1,270.17", 17, Some(3), 127017),   \* a thousands separator
      LogLine("17 HRS $25.00", 17, None, 2500) }

\* what pytesseract.image_to_string may return for a page: nothing, or one line
PageTexts == {""} \cup {l.line : l \in LogLines}

\* what the model may return as one entry of its JSON array
LlmItems ==
    { [Hour |-> JInt(9),  Quantity |-> JInt(5),  Revenue |-> JStr("$10.00")],
      [Hour |-> JInt(9),  Quantity |-> JNull,    Revenue |-> JStr("$12.00")],
      [Hour |-> JInt(15), Quantity |-> JInt(8),  Revenue |-> JStr("$50.00")],
      [Hour |-> JStr("14"), Quantity |-> JStr("1,234"), Revenue |-> JDec(3000)],
      [Hour |-> JInt(25), Quantity |-> JInt(2),  Revenue |-> JStr("$20.00")],
      [Hour |-> JInt(3),  Quantity |-> JInt(2),  Revenue |-> JStr("$20.00")],
      [Hour |-> JInt(17), Quantity |-> JInt(3),  Revenue |-> JStr("$1,270.17")],
      [Hour |-> JInt(16), Quantity |-> JInt(-2), Revenue |-> JStr("-5.00")],
      [Hour |-> JStr("2 PM"), Quantity |-> JMissing, Revenue |-> JStr("$40.00")] }

\* what one call of a model helper returns: a list of entries, possibly empty
LlmResults == {<<>>} \cup {<<item>> : item \in LlmItems}

VARIABLES
    pc,           \* where the run is
    method,       \* extraction_method
    images,       \* number of page images
    page,         \* pages handled so far by the current loop
    all_text,     \* extract_text_from_images: the text of each page
    text,         \* parse_revenue_data: the normalised text
    all_results,  \* parse_revenue_data_with_openai: the entries collected
    data,         \* the records built so far
    df,           \* the table handed to analyze_revenue_data
    stats,        \* the result of analyze_revenue_data
    shown,        \* what display_revenue_data put on the page
    diag,         \* st.warning / st.error / st.success messages, in order
    calls,        \* the calls made to the collaborators, in order
    caught,       \* the exception an except clause of the run swallowed
    exc           \* the exception that left main()

vars == <<pc, method, images, page, all_text, text, all_results, data, df, stats,
          shown, diag, calls, caught, exc>>

NoExc == [origin |-> "none", wrapped |-> FALSE]
NothingShown == [rendered |-> FALSE, total_revenue |-> 0, total_quantity |-> 0,
                 quantity_column |-> <<>>]

Note(kind, hour) == [kind |-> kind, hour |-> hour]
Call(who, p, ok) == [who |-> who, page |-> p, ok |-> ok]

Init ==
    /\ pc = "main"
    /\ method \in {OPENAI, OCR}
    /\ images = 0
    /\ page = 0
    /\ all_text = <<>>
    /\ text = ""
    /\ all_results = <<>>
    /\ data = <<>>
    /\ df = <<>>
    /\ stats = <<>>
    /\ shown = NothingShown
    /\ diag = <<>>
    /\ calls = <<>>
    /\ caught = NoExc
    /\ exc = NoExc

\* convert_pdf_to_images (src/app.py:29-42) and the branch on its result in main
ConvertPdfRaises ==
    /\ pc = "main"
    /\ calls' = Append(calls, Call("rasterizer", 0, FALSE))
    /\ caught' = [origin |-> "rasterizer", wrapped |-> FALSE]
    /\ diag' = diag \o <<Note("error_converting_pdf", 0), Note("failed_to_process", 0)>>
    /\ pc' = "done"
    /\ UNCHANGED <<method, images, page, all_text, text, all_results, data, df, stats,
                   shown, exc>>

ConvertPdfReturns ==
    /\ pc = "main"
    /\ \E n \in 0..MaxPages :
        /\ images' = n
        /\ calls' = Append(calls, Call("rasterizer", 0, TRUE))
        /\ IF n = 0
           THEN /\ diag' = Append(diag, Note("failed_to_process", 0))
                /\ pc' = "done"
           ELSE /\ diag' = diag
                /\ pc' = IF method = OPENAI THEN "openai" ELSE "ocr"
    /\ UNCHANGED <<method, page, all_text, text, all_results, data, df, stats, shown,
                   caught, exc>>

\* one iteration of extract_text_from_images (src/app.py:49-53)
OcrPageReturns ==
    /\ pc = "ocr"
    /\ page < images
    /\ \E t \in PageTexts :
        /\ all_text' = Append(all_text, t)
        /\ calls' = Append(calls, Call("ocr", page + 1, TRUE))
    /\ page' = page + 1
    /\ pc' = IF page + 1 = images THEN "parse" ELSE "ocr"
    /\ UNCHANGED <<method, images, text, all_results, data, df, stats, shown, diag,
                   caught, exc>>

\* a variant of OcrPageRaises in which extract_text_from_images catches the
\* failure of a page, reports it and returns the text read so far
OcrPageRaises_Swallowed ==
    /\ pc = "ocr"
    /\ page < images
    /\ calls' = Append(calls, Call("ocr", page + 1, FALSE))
    /\ caught' = [origin |-> "ocr", wrapped |-> FALSE]
    /\ diag' = Append(diag, Note("error_extracting_text", page + 1))
    /\ pc' = "parse"
    /\ UNCHANGED <<method, images, page, all_text, text, all_results, data, df, stats,
                   shown, exc>>

\* pytesseract raises: nothing between the call and main() handles it
OcrPageRaises ==
    /\ pc = "ocr"
    /\ page < images
    /\ calls' = Append(calls, Call("ocr", page + 1, FALSE))
    /\ exc' = [origin |-> "ocr", wrapped |-> FALSE]
    /\ pc' = "raised"
    /\ UNCHANGED <<method, images, page, all_text, text, all_results, data, df, stats,
                   shown, diag, caught>>

\* "\n".join(all_text)
RECURSIVE JoinLines(_)
JoinLines(lines) ==
    IF lines = <<>> THEN ""
    ELSE IF Len(lines) = 1 THEN lines[1]
    ELSE lines[1] \o "\n" \o JoinLines(Tail(lines))

\* parse_revenue_data up to the end of the loop over matches (src/app.py:65-112)
ParsePrimary ==
    /\ pc = "parse"
    /\ LET normalised == NormalizeWS(JoinLines(all_text))
       IN  /\ text' = normalised
           /\ data' = PrimaryPass(FindAllPrimary(normalised))
    /\ pc' = "alt"
    /\ UNCHANGED <<method, images, page, all_text, all_results, df, stats, shown, diag,
                   calls, caught, exc>>

\* the loop over alt_matches (src/app.py:114-144)
ParseAlt ==
    /\ pc = "alt"
    /\ data' = AltPass(data, FindAllAlt(text), text)
    /\ pc' = "recover"
    /\ UNCHANGED <<method, images, page, all_text, text, all_results, df, stats, shown,
                   diag, calls, caught, exc>>

\* the search for hours 14 and 15, the sort and the return (src/app.py:146-226)
ParseRecover ==
    /\ pc = "recover"
    /\ LET st == RecoveryPass(data, diag, text)
       IN  /\ data' = st.data
           /\ diag' = st.diag
           /\ df' = SortByHour(st.data)
    /\ pc' = "analyze"
    /\ UNCHANGED <<method, images, page, all_text, text, all_results, stats, shown,
                   calls, caught, exc>>

\* the except clause of parse_revenue_data_with_openai (src/app.py:388-390): the
\* error is shown and an empty table returned, whatever had been collected
OpenAiAbort(e) ==
    /\ caught' = e
    /\ diag' = Append(diag, Note("error_analyzing_pdf", 0))
    /\ df' = <<>>
    /\ pc' = "analyze"

\* one iteration of the page loop (src/app.py:316-338): the vision helper raises,
\* wrapping the failure in a new Exception (src/openai_helper.py:135-136)
OpenAiVisionRaises ==
    /\ pc = "openai"
    /\ page < images
    /\ calls' = Append(calls, Call("vision", page + 1, FALSE))
    /\ OpenAiAbort([origin |-> "vision", wrapped |-> TRUE])
    /\ UNCHANGED <<method, images, page, all_text, text, all_results, data, stats,
                   shown, exc>>

\* the vision helper returns entries
OpenAiVisionReturns ==
    /\ pc = "openai"
    /\ page < images
    /\ \E results \in LlmResults \ {<<>>} :
        all_results' = all_results \o results
    /\ calls' = Append(calls, Call("vision", page + 1, TRUE))
    /\ diag' = Append(diag, Note("page_extracted", page + 1))
    /\ page' = page + 1
    /\ UNCHANGED <<pc, method, images, all_text, text, data, df, stats, shown, caught,
                   exc>>

\* the vision helper returns nothing and the OCR of the fallback raises
OpenAiFallbackOcrRaises ==
    /\ pc = "openai"
    /\ page < images
    /\ calls' = calls \o <<Call("vision", page + 1, TRUE), Call("ocr", page + 1, FALSE)>>
    /\ caught' = [origin |-> "ocr", wrapped |-> FALSE]
    /\ diag' = diag \o <<Note("page_no_data", page + 1), Note("error_analyzing_pdf", 0)>>
    /\ df' = <<>>
    /\ pc' = "analyze"
    /\ UNCHANGED <<method, images, page, all_text, text, all_results, data, stats,
                   shown, exc>>

\* the vision helper returns nothing and extract_data_from_pdf_text raises,
\* wrapping the failure in a new Exception (src/openai_helper.py:64-65)
OpenAiFallbackLlmRaises ==
    /\ pc = "openai"
    /\ page < images
    /\ calls' = calls \o <<Call("vision", page + 1, TRUE), Call("ocr", page + 1, TRUE),
                           Call("text_llm", page + 1, FALSE)>>
    /\ caught' = [origin |-> "text_llm", wrapped |-> TRUE]
    /\ diag' = diag \o <<Note("page_no_data", page + 1), Note("error_analyzing_pdf", 0)>>
    /\ df' = <<>>
    /\ pc' = "analyze"
    /\ UNCHANGED <<method, images, page, all_text, text, all_results, data, stats,
                   shown, exc>>

\* the vision helper returns nothing and the fallback returns its entries
OpenAiFallbackReturns ==
    /\ pc = "openai"
    /\ page < images
    /\ \E ocr_results \in LlmResults :
        /\ all_results' = all_results \o ocr_results
        /\ diag' = diag \o <<Note("page_no_data", page + 1)>>
                        \o (IF ocr_results = <<>> THEN <<>>
                            ELSE <<Note("page_extracted_from_ocr", page + 1)>>)
    /\ calls' = calls \o <<Call("vision", page + 1, TRUE), Call("ocr", page + 1, TRUE),
                           Call("text_llm", page + 1, TRUE)>>
    /\ page' = page + 1
    /\ UNCHANGED <<pc, method, images, all_text, text, data, df, stats, shown, caught,
                   exc>>

\* after the page loop: the loop over all_results, the check for hours 14 and
\* 15, the sort and the return (src/app.py:340-387)
OpenAiProcess ==
    /\ pc = "openai"
    /\ page = images
    /\ LET st == ItemLoop([data |-> <<>>, diag |-> diag], all_results)
       IN  /\ data' = st.data
           /\ diag' = NotFoundByOpenAI(st.diag, Hours(st.data), <<14, 15>>)
           /\ df' = SortByHour(st.data)
    /\ pc' = "analyze"
    /\ UNCHANGED <<method, images, page, all_text, text, all_results, stats, shown,
                   calls, caught, exc>>

\* stats = analyze_revenue_data(df)
Analyze ==
    /\ pc = "analyze"
    /\ stats' = AnalyzeRevenueData(df)
    /\ pc' = "display"
    /\ UNCHANGED <<method, images, page, all_text, text, all_results, data, df, shown,
                   diag, calls, caught, exc>>

\* display_revenue_data(df, stats) (src/app.py:247-305)
Display ==
    /\ pc = "display"
    /\ IF df = <<>>
       THEN /\ diag' = Append(diag, Note("no_revenue_data", 0))
            /\ shown' = shown
       ELSE /\ diag' = diag
            /\ shown' = [rendered |-> TRUE,
                         total_revenue |-> DisplayTotals(df).total_revenue,
                         total_quantity |-> DisplayTotals(df).total_quantity,
                         quantity_column |-> [k \in 1..Len(df) |-> DisplayQuantity(df[k])]]
    /\ pc' = "done"
    /\ UNCHANGED <<method, images, page, all_text, text, all_results, data, df, stats,
                   calls, caught, exc>>

Next ==
    \/ ConvertPdfRaises
    \/ ConvertPdfReturns
    \/ OcrPageReturns
    \/ OcrPageRaises
    \/ ParsePrimary
    \/ ParseAlt
    \/ ParseRecover
    \/ OpenAiVisionRaises
    \/ OpenAiVisionReturns
    \/ OpenAiFallbackOcrRaises
    \/ OpenAiFallbackLlmRaises
    \/ OpenAiFallbackReturns
    \/ OpenAiProcess
    \/ Analyze
    \/ Display

Spec == Init /\ [][Next]_vars

(***************************************************************************)
(* Properties of the run                                                   *)
(***************************************************************************)
Notes == {diag[k] : k \in 1..Len(diag)}

\* parse_revenue_data has returned its table
RegexReturned == method = OCR /\ images > 0 /\ pc \in {"analyze", "display", "done"}

\* parse_revenue_data_with_openai has returned the table of its item loop
LlmReturned ==
    /\ method = OPENAI
    /\ images > 0
    /\ caught = NoExc
    /\ pc \in {"analyze", "display", "done"}

\* the pages read, as the log lines they hold
PageLines == {l \in LogLines : \E k \in 1..Len(all_text) : all_text[k] = l.line}

\* the hour token of a line: what stands before its first space
HourToken(line) ==
    LET spaces == {k \in 1..Len(line) : Char(line, k) = " "}
    IN  IF spaces = {} THEN line
        ELSE SubSeq(line, 1, (CHOOSE k \in spaces : \A j \in spaces : k <= j) - 1)

\* the tokens that denote hour h: its digits, the "1" read as "l" or "I", and
\* for hour 14 the letter "M"
Denotes(token, h) ==
    \/ token = IntToStr(h)
    \/ token = "l" \o IntToStr(h % 10)
    \/ token = "I" \o IntToStr(h % 10)
    \/ h = 14 /\ token = "M"

RowsOfHour(h) == {k \in 1..Len(df) : df[k].Hour = h}

\* C1: the table returned by either path holds at most one record per hour.
C1_OneRecordPerHour ==
    \A i, j \in 1..Len(df) : df[i].Hour = df[j].Hour => i = j

\* a diagnostic that names hour h (the notes about a page carry its number)
HourReported(h) ==
    \E n \in Notes : n.hour = h /\ n.kind \notin {"page_extracted", "page_no_data",
                                                   "page_extracted_from_ocr"}

\* C2: every record of the table has an hour in [7,23], and an entry or item
\* whose hour is outside the range is reported by a diagnostic, on both paths.
C2_HoursInRange ==
    /\ \A k \in 1..Len(df) : df[k].Hour >= 7 /\ df[k].Hour <= 23
    /\ RegexReturned =>
           \A l \in PageLines : l.hour \notin 7..23 => HourReported(l.hour)
    /\ LlmReturned =>
           \A k \in 1..Len(all_results) :
               all_results[k].Hour.t = "int" /\ all_results[k].Hour.n \notin 7..23
                   => HourReported(all_results[k].Hour.n)

\* C3: when no page holds an entry whose hour token denotes hour h (14 or 15),
\* parse_revenue_data returns no record for h and reports that h could not be
\* found; and one entry never yields records for both 14 and 15.
C3_NeverInvents1415 ==
    RegexReturned =>
        /\ \A h \in {14, 15} :
              (\A l \in PageLines : ~Denotes(HourToken(l.line), h))
                  => /\ RowsOfHour(h) = {}
                     /\ Note("could_not_be_found", h) \in Notes
        /\ Cardinality(PageLines) <= 1 => RowsOfHour(14) = {} \/ RowsOfHour(15) = {}

\* C4: when the pages hold two entries for one hour, one with a quantity and one
\* without, the record of that hour is the entry with the quantity: its quantity
\* and its revenue, in either page order.
C4_QuantityBearingWins ==
    RegexReturned =>
        \A a, b \in PageLines :
            a.hour = b.hour /\ a.quantity # None /\ b.quantity = None
                => /\ RowsOfHour(a.hour) # {}
                   /\ \A k \in RowsOfHour(a.hour) :
                          df[k].Quantity = a.quantity /\ df[k].Revenue = a.revenue

\* C5: the category of every record, built by any pass of either path, is
\* "Before 3:00 PM" exactly when its hour is below 15; hour 15 is "After 3:00 PM".
C5_CategoryByHour ==
    /\ \A k \in 1..Len(data) :
           data[k].Category = (IF data[k].Hour < 15 THEN "Before 3:00 PM" ELSE "After 3:00 PM")
    /\ \A k \in 1..Len(df) :
           /\ df[k].Category = "Before 3:00 PM" <=> df[k].Hour < 15
           /\ df[k].Category = "After 3:00 PM" <=> df[k].Hour >= 15

\* C5's case: parse_revenue_data returned records for hours 14 and 15, one of
\* them built by the recovery pass
C5_Witness ==
    /\ RegexReturned
    /\ RowsOfHour(14) # {}
    /\ RowsOfHour(15) # {}
    /\ \E n \in Notes : n.kind \in {"recovered", "recovered_m_hrs"}

\* C6: when the only entry for hour 14 on the pages is "M HRS q $a", the table
\* holds a record with hour 14, quantity q, revenue a, "Before 3:00 PM".
C6_MHrsRecovered ==
    RegexReturned =>
        \A l \in PageLines :
            /\ HourToken(l.line) = "M"
            /\ \A o \in PageLines : Denotes(HourToken(o.line), 14) => o = l
            => \E k \in RowsOfHour(14) :
                   /\ df[k].Quantity = l.quantity
                   /\ df[k].Revenue = l.revenue
                   /\ df[k].Category = BEFORE

HasComma(str) == \E k \in 1..Len(str) : Char(str, k) = ","

\* C7: an entry whose amount is written "$1,270.17" yields a record for its
\* hour with revenue 1270.17, on the regex path and on the LLM path.
C7_ThousandsSeparator ==
    /\ RegexReturned =>
           \A l \in PageLines :
               HasComma(l.line) => \E k \in RowsOfHour(l.hour) : df[k].Revenue = l.revenue
    /\ LlmReturned =>
           \A i \in 1..Len(all_results) :
               all_results[i].Revenue = JStr("$1,270.17") /\ all_results[i].Hour = JInt(17)
                   => \E k \in RowsOfHour(17) : df[k].Revenue = 127017

\* the call of a collaborator that failed, if any
Failed == {k \in 1..Len(calls) : ~calls[k].ok}

\* C8 as stated: a failure of any collaborator leaves the run as that failure,
\* unmodified; it is not swallowed, replaced or followed by another call.
C8_PropagatedUnmodified ==
    \A k \in Failed :
        /\ k = Len(calls)
        /\ pc = "raised"
        /\ exc = [origin |-> calls[k].who, wrapped |-> FALSE]
        /\ caught = NoExc

\* C8 amended: no call is made after a failed call; a failure of the OCR engine
\* under extract_text_from_images leaves the run unmodified; a failure of the
\* rasterizer is caught and reported and the run ends; on the OpenAI path a
\* failure of a model helper is replaced by a new exception, and that exception,
\* like a failure of the fallback OCR, is caught and reported and an empty table
\* is returned.
C8_FailureHandling ==
    /\ pc = "raised" <=> exc # NoExc
    /\ (exc # NoExc \/ caught # NoExc) => Failed # {}
    /\ \A k \in Failed :
        /\ k = Len(calls)
        /\ CASE calls[k].who = "rasterizer" ->
                    /\ pc = "done"
                    /\ exc = NoExc
                    /\ caught = [origin |-> "rasterizer", wrapped |-> FALSE]
                    /\ Note("error_converting_pdf", 0) \in Notes
                    /\ df = <<>>
             [] calls[k].who = "ocr" /\ method = OCR ->
                    /\ pc = "raised"
                    /\ exc = [origin |-> "ocr", wrapped |-> FALSE]
                    /\ caught = NoExc
             [] calls[k].who = "ocr" /\ method = OPENAI ->
                    /\ pc \in {"analyze", "display", "done"}
                    /\ exc = NoExc
                    /\ caught = [origin |-> "ocr", wrapped |-> FALSE]
                    /\ Note("error_analyzing_pdf", 0) \in Notes
                    /\ df = <<>>
             [] calls[k].who \in {"vision", "text_llm"} ->
                    /\ pc \in {"analyze", "display", "done"}
                    /\ exc = NoExc
                    /\ caught = [origin |-> calls[k].who, wrapped |-> TRUE]
                    /\ Note("error_analyzing_pdf", 0) \in Notes
                    /\ df = <<>>

\* C8's case: the vision helper failed on the second page, after the first page
\* had given entries, and the run ended with the empty-table warning
C8_Witness ==
    /\ pc = "done"
    /\ all_results # <<>>
    /\ \E k \in Failed : calls[k].who = "vision"
    /\ caught.wrapped
    /\ Note("no_revenue_data", 0) \in Notes

\* the entries and items the code's own conversions accept: an hour of digits in
\* [7,23], a plain amount, a quantity that is absent or an integer
WellFormedLine(l) ==
    IsDigits(HourToken(l.line)) /\ l.hour \in 7..23 /\ ~HasComma(l.line)

WellFormedItem(item) ==
    /\ ItemHour(item).ok
    /\ ItemHour(item).val \in 7..23
    /\ ItemRevenue(item).ok
    /\ ItemRevenue(item).val >= 0
    /\ ItemQuantity(item).ok

\* an item with a field the conversions reject
Unparseable(item) == ~ItemHour(item).ok \/ ~ItemRevenue(item).ok \/ ~ItemQuantity(item).ok

\* C9: an entry or item that cannot be parsed does not stop the others: the
\* table holds a record for the hour of every well-formed entry of the pages and
\* of every well-formed item, whatever else the batch holds; an item that
\* cannot be parsed leaves a diagnostic.
C9_WellFormedKept ==
    /\ RegexReturned =>
           \A l \in PageLines : WellFormedLine(l) => RowsOfHour(l.hour) # {}
    /\ LlmReturned =>
           \A i \in 1..Len(all_results) :
               /\ WellFormedItem(all_results[i])
                      => RowsOfHour(ItemHour(all_results[i]).val) # {}
               /\ Unparseable(all_results[i]) => Note("openai_result_error", 0) \in Notes

RECURSIVE RevenueOfRows(_)
RevenueOfRows(S) ==
    IF S = {} THEN 0
    ELSE LET k == CHOOSE k \in S : TRUE
         IN  df[k].Revenue + RevenueOfRows(S \ {k})

RECURSIVE QuantityOfRows(_)
QuantityOfRows(S) ==
    IF S = {} THEN 0
    ELSE LET k == CHOOSE k \in S : TRUE
         IN  (IF df[k].Quantity = None THEN 0 ELSE df[k].Quantity[1])
             + QuantityOfRows(S \ {k})

RECURSIVE BucketTotals(_)
BucketTotals(n) == IF n = 0 THEN 0 ELSE stats[n].Total_Revenue + BucketTotals(n - 1)

RowsOfCategory(c) == {k \in 1..Len(df) : df[k].Category = c}

\* C10: once analyze_revenue_data has run, each category that has records has
\* exactly one bucket, with the sum of their revenues, their number, an average
\* equal to the total divided by the number, and the sum of their quantities
\* with an unknown quantity counted as 0; a category without records has no
\* bucket; and the bucket totals add up to the total revenue of the table, which
\* is the total shown.
C10_BucketsMatchRecords ==
    pc \in {"display", "done"} =>
        /\ \A c \in {BEFORE, AFTER} :
               IF RowsOfCategory(c) = {}
               THEN \A b \in 1..Len(stats) : stats[b].Category # c
               ELSE /\ Cardinality({b \in 1..Len(stats) : stats[b].Category = c}) = 1
                    /\ \A b \in 1..Len(stats) :
                           stats[b].Category = c =>
                               /\ stats[b].Total_Revenue = RevenueOfRows(RowsOfCategory(c))
                               /\ stats[b].Entry_Count = Cardinality(RowsOfCategory(c))
                               /\ stats[b].Average_Revenue.den > 0
                               /\ stats[b].Average_Revenue.num * stats[b].Entry_Count
                                      = stats[b].Total_Revenue * stats[b].Average_Revenue.den
                               /\ stats[b].Total_Quantity = QuantityOfRows(RowsOfCategory(c))
        /\ \A b \in 1..Len(stats) : stats[b].Category \in {BEFORE, AFTER}
        /\ BucketTotals(Len(stats)) = RevenueOfRows(1..Len(df))
        /\ shown.rendered => shown.total_revenue = BucketTotals(Len(stats))

\* C10's case: the table shown has records in both categories, two of them in
\* one category, and a record whose quantity is unknown
C10_Witness ==
    /\ pc = "done"
    /\ shown.rendered
    /\ Len(stats) = 2
    /\ \E b \in 1..Len(stats) : stats[b].Entry_Count >= 2
    /\ \E k \in 1..Len(df) : df[k].Quantity = None

\* C11: once analyze_revenue_data has run, a category has a bucket if and only
\* if some record has it; no bucket has an entry count of 0 or an average over 0
\* entries; and an empty table, as returned for pages without an entry, gives an
\* empty result and the run goes on to its end without an exception.
C11_BucketIffRecords ==
    /\ pc \in {"display", "done"} =>
        /\ \A c \in {BEFORE, AFTER} :
               (\E b \in 1..Len(stats) : stats[b].Category = c)
                   <=> (\E k \in 1..Len(df) : df[k].Category = c)
        /\ \A b \in 1..Len(stats) :
               stats[b].Entry_Count >= 1 /\ stats[b].Average_Revenue.den >= 1
        /\ df = <<>> => stats = <<>>
    /\ RegexReturned /\ (\A k \in 1..Len(all_text) : all_text[k] = "") =>
           df = <<>> /\ exc = NoExc

\* C11's case: the pages held no entry, the table and the statistics are empty and
\* the run ended with the warning that nothing was extracted
C11_Witness ==
    /\ RegexReturned
    /\ pc = "done"
    /\ \A k \in 1..Len(all_text) : all_text[k] = ""
    /\ df = <<>>
    /\ stats = <<>>
    /\ Note("no_revenue_data", 0) \in Notes

\* the amount text of a line: from its "$" on
AmountText(line) ==
    LET at == {k \in 1..Len(line) : Char(line, k) = "$"}
    IN  IF at = {} THEN ""
        ELSE SubSeq(line, CHOOSE k \in at : \A j \in at : k <= j, Len(line))

\* an item and a log line that carry the same candidate: the same hour, the same
\* quantity (or none) and the same amount text
SameCandidate(item, l) ==
    /\ item.Hour = JInt(l.hour)
    /\ item.Quantity = (IF l.quantity = None THEN JNull ELSE JInt(l.quantity[1]))
    /\ item.Revenue = JStr(AmountText(l.line))

LineOfItem(item) == (CHOOSE l \in LogLines : SameCandidate(item, l)).line
ItemOfLine(line) == CHOOSE item \in LlmItems : \E l \in LogLines : l.line = line /\ SameCandidate(item, l)

\* C12: the two paths treat the same candidates alike: the table the LLM path
\* returns for a list of items is the table parse_revenue_data returns for the
\* lines that carry the same candidates, and the other way round.
C12_PathsAgree ==
    /\ LlmReturned
       /\ (\A i \in 1..Len(all_results) : \E l \in LogLines : SameCandidate(all_results[i], l))
           => df = ParseRevenueData(JoinLines([i \in 1..Len(all_results) |->
                                                  LineOfItem(all_results[i])]))
    /\ RegexReturned
       /\ (\A k \in 1..Len(all_text) :
               \E l \in LogLines, item \in LlmItems :
                   l.line = all_text[k] /\ SameCandidate(item, l))
           => df = OpenAiTable([k \in 1..Len(all_text) |-> ItemOfLine(all_text[k])])

\* C13: every record of the table has a revenue >= 0 and a quantity that is
\* unknown or >= 0; an item with a negative revenue or quantity gives no record.
C13_NonNegative ==
    /\ \A k \in 1..Len(df) :
           /\ df[k].Revenue >= 0
           /\ df[k].Quantity = None \/ df[k].Quantity[1] >= 0
    /\ LlmReturned =>
           \A i \in 1..Len(all_results) :
               /\ all_results[i].Hour = JInt(16)
               /\ all_results[i].Quantity = JInt(-2)
               /\ all_results[i].Revenue = JStr("-5.00")
               => RowsOfHour(16) = {}

\* the records the quantity-less pass has added to data: those after the
\* records of the primary pass
AltRecords == {k \in 1..Len(data) : k > Len(FindAllPrimary(text))}

\* C14: a record of the quantity-less pass has the amount of the entry that
\* starts with its hour token, and its quantity, if it has one, is that entry's:
\* neither is taken from the entry of another hour.
C14_AltSameEntry ==
    method = OCR /\ pc = "recover" =>
        \A k \in AltRecords :
            \E l \in PageLines :
                /\ HourToken(l.line) = IntToStr(data[k].Hour)
                /\ data[k].Revenue = l.revenue
                /\ data[k].Quantity # None => data[k].Quantity = l.quantity

\* what a step adds to data and to diag
AddedRecords == {k \in 1..Len(data') : k > Len(data)}
AddedNotes == {diag'[k] : k \in {j \in 1..Len(diag') : j > Len(diag)}}

\* C15: the step of the recovery pass keeps every record produced before it, in
\* place; it adds records only for hours 14 and 15 that had no record, at most
\* one for each; for an hour that had a record it adds neither a record nor a
\* message; and for each missing hour it either adds a record with the success
\* message or emits the "could not be found" message, never both or neither.
C15_RecoveryFrame ==
    [][pc = "recover" =>
        /\ Len(data') >= Len(data)
        /\ SubSeq(data', 1, Len(data)) = data
        /\ Len(diag') >= Len(diag)
        /\ SubSeq(diag', 1, Len(diag)) = diag
        /\ \A k \in AddedRecords : data'[k].Hour \in {14, 15} \ Hours(data)
        /\ \A h \in {14, 15} :
               /\ Cardinality({k \in AddedRecords : data'[k].Hour = h}) <= 1
               /\ IF h \in Hours(data)
                  THEN \A n \in AddedNotes : n.hour # h
                  ELSE /\ (\E k \in AddedRecords : data'[k].Hour = h)
                              <=> Note("could_not_be_found", h) \notin AddedNotes
                       /\ (\E k \in AddedRecords : data'[k].Hour = h)
                              <=> (\E n \in AddedNotes :
                                       n.hour = h /\ n.kind \in {"recovered", "recovered_m_hrs"})
                       /\ Cardinality({n \in AddedNotes : n.hour = h}) = 1
    ]_vars

\* C15's case: the recovery pass ran after the earlier passes had produced a
\* record for hour 15; it kept it, recovered hour 14 and searched no further
C15_Witness ==
    /\ RegexReturned
    /\ \E k \in 1..Len(data) : data[k].Hour = 15 /\ k < Len(data)
    /\ \E k \in 1..Len(data) : data[k].Hour \notin {14, 15}
    /\ Notes = {Note("recovered", 14)}

====
